---- MODULE Spec2Model ----
(***************************************************************************)
(* Model of src/scrape.ts: the Twitter/X GraphQL endpoint scraper.         *)
(*                                                                         *)
(* Texts are sequences of tokens.  A token stands for the literal piece of *)
(* JavaScript source it names (`queryId:`, a double-quoted string literal, *)
(* one whitespace character, ...), so that the two regular expressions of  *)
(* the extractor are matched position by position as the engine does:      *)
(* leftmost start, lazy gaps with backtracking, non-overlapping matchAll.  *)
(* Strings (names, hashes, flags) are sequences of one-character strings.  *)
(* "KELVIN" is the single code point U+212A, canonically equivalent to K.  *)
(***************************************************************************)
EXTENDS Integers, Sequences, FiniteSets, TLC

(* ---------------------------------------------------------------------- *)
(* Characters                                                             *)
(* ---------------------------------------------------------------------- *)

\* \w of a JavaScript regular expression without the u/i flags: ASCII only.
IsWordChar(c) ==
  c \in {"a", "b", "c", "x", "y", "A", "B", "K", "f", "g", "_", "1"}

IsWord(s) == Len(s) > 0 /\ \A i \in 1..Len(s) : IsWordChar(s[i])

\* UTF-16 code unit of a character (the order of the < operator on strings).
CodeUnit(c) ==
  CASE c = "-" -> 45
    [] c = "1" -> 49
    [] c = "A" -> 65
    [] c = "B" -> 66
    [] c = "K" -> 75
    [] c = "_" -> 95
    [] c = "a" -> 97
    [] c = "b" -> 98
    [] c = "c" -> 99
    [] c = "f" -> 102
    [] c = "g" -> 103
    [] c = "x" -> 120
    [] c = "y" -> 121
    [] c = "KELVIN" -> 8490

\* Primary collation weight: punctuation < digits < letters, case ignored,
\* canonically equivalent characters share every weight.
Primary(c) ==
  CASE c = "_" -> 1
    [] c = "-" -> 2
    [] c = "1" -> 10
    [] c \in {"a", "A"} -> 20
    [] c \in {"b", "B"} -> 21
    [] c = "c" -> 22
    [] c = "f" -> 25
    [] c = "g" -> 26
    [] c \in {"K", "KELVIN"} -> 30
    [] c = "x" -> 43
    [] c = "y" -> 44

\* Tertiary collation weight: lower case before upper case.
Tertiary(c) == IF c \in {"A", "B", "K", "KELVIN"} THEN 1 ELSE 0

\* the weight of a character at a comparison level
Weight(level, c) ==
  CASE level = "primary" -> Primary(c)
    [] level = "tertiary" -> Tertiary(c)
    [] level = "codeunit" -> CodeUnit(c)

RECURSIVE LexCompare(_, _, _, _)
\* three-way lexicographic comparison of x and y from position i by the
\* weights of a level
LexCompare(level, x, y, i) ==
  IF i > Len(x) /\ i > Len(y) THEN 0
  ELSE IF i > Len(x) THEN -1
  ELSE IF i > Len(y) THEN 1
  ELSE IF Weight(level, x[i]) < Weight(level, y[i]) THEN -1
  ELSE IF Weight(level, x[i]) > Weight(level, y[i]) THEN 1
  ELSE LexCompare(level, x, y, i + 1)

\* String.prototype.localeCompare in the default locale: primary weights
\* decide, then the case level; canonically equivalent strings give 0.
localeCompare(x, y) ==
  LET p == LexCompare("primary", x, y, 1)
  IN  IF p # 0 THEN p ELSE LexCompare("tertiary", x, y, 1)

\* x <= y on JavaScript strings (code-unit order).
CodeUnitLeq(x, y) == LexCompare("codeunit", x, y, 1) <= 0

(* ---------------------------------------------------------------------- *)
(* Tokens and texts                                                       *)
(* ---------------------------------------------------------------------- *)

Tok(k) == [k |-> k, v |-> <<>>]
Str(s) == [k |-> "str", v |-> s]

KwQuery == Tok("queryId")           \* queryId:
KwOp    == Tok("operationName")     \* operationName:
KwFeat  == Tok("featureSwitches")   \* featureSwitches:
Ws      == Tok("ws")                \* one whitespace character (\s)
LBrack  == Tok("lbrack")            \* [
RBrack  == Tok("rbrack")            \* ]
RBrace  == Tok("rbrace")            \* }
Comma   == Tok("comma")             \* ,
Pad     == Tok("pad")               \* a run of PadLen characters other than } ] " and \s

GapMax == 500
PadLen == GapMax

\* number of characters of the source text a token stands for
TokLen(t) ==
  CASE t.k = "queryId" -> 8
    [] t.k = "operationName" -> 14
    [] t.k = "featureSwitches" -> 16
    [] t.k = "str" -> Len(t.v) + 2
    [] t.k = "pad" -> PadLen
    [] OTHER -> 1

RECURSIVE TextLen(_, _, _)
\* number of characters of code[from..to]
TextLen(code, from, to) ==
  IF from > to THEN 0 ELSE TokLen(code[from]) + TextLen(code, from + 1, to)

RECURSIVE SkipWs(_, _)
\* \s* : the first position at or after j that is not whitespace
SkipWs(code, j) ==
  IF j <= Len(code) /\ code[j].k = "ws" THEN SkipWs(code, j + 1) ELSE j

IsKind(code, j, k) == j >= 1 /\ j <= Len(code) /\ code[j].k = k

\* [^}]* can span code[from..to]
NoBrace(code, from, to) == \A m \in from..to : code[m].k # "rbrace"

NoMatch == [ok |-> FALSE]

\* queryId:\s*"([^"]+)" at position i; the position of the string, else 0
QueryHead(code, i) ==
  IF IsKind(code, i, "queryId") /\ IsKind(code, SkipWs(code, i + 1), "str")
  THEN SkipWs(code, i + 1) ELSE 0

\* the first ] after position b, else 0
FirstRBrack(code, b) ==
  IF \E r \in (b + 1)..Len(code) : code[r].k = "rbrack"
  THEN CHOOSE r \in (b + 1)..Len(code) :
         /\ code[r].k = "rbrack"
         /\ \A q \in (b + 1)..(r - 1) : code[q].k # "rbrack"
  ELSE 0

\* featureSwitches:\s*\[([^\]]*)\] with featureSwitches: at position l
FeatTail(code, l) ==
  /\ IsKind(code, l, "featureSwitches")
  /\ IsKind(code, SkipWs(code, l + 1), "lbrack")
  /\ FirstRBrack(code, SkipWs(code, l + 1)) # 0

\* WITH_FEATURES attempted at start position i
MatchWithFeatures(code, i) ==
  LET s == QueryHead(code, i)
      \* operationName:\s*"([^"]+)" at k, reached over a [^}]*? gap from s
      OpAt(k) == /\ NoBrace(code, s + 1, k - 1)
                 /\ IsKind(code, k, "operationName")
                 /\ IsKind(code, SkipWs(code, k + 1), "str")
      FeatAt(k, l) == /\ NoBrace(code, SkipWs(code, k + 1) + 1, l - 1)
                      /\ FeatTail(code, l)
      Full(k) == OpAt(k) /\ \E l \in (SkipWs(code, k + 1) + 1)..Len(code) : FeatAt(k, l)
  IN  IF s = 0 \/ ~ \E k \in (s + 1)..Len(code) : Full(k) THEN NoMatch
      ELSE LET k == CHOOSE k \in (s + 1)..Len(code) :
                      Full(k) /\ \A k2 \in (s + 1)..(k - 1) : ~ Full(k2)
               n == SkipWs(code, k + 1)
               l == CHOOSE l \in (n + 1)..Len(code) :
                      FeatAt(k, l) /\ \A l2 \in (n + 1)..(l - 1) : ~ FeatAt(k, l2)
               b == SkipWs(code, l + 1)
               r == FirstRBrack(code, b)
           IN  [ok |-> TRUE, m1 |-> code[s].v, m2 |-> code[n].v,
                m3 |-> SubSeq(code, b + 1, r - 1), end |-> r + 1]

\* WITHOUT_FEATURES attempted at start position i
MatchWithoutFeatures(code, i) ==
  LET s == QueryHead(code, i)
      OpAt(k) == /\ NoBrace(code, s + 1, k - 1)
                 /\ TextLen(code, s + 1, k - 1) <= GapMax
                 /\ IsKind(code, k, "operationName")
                 /\ IsKind(code, SkipWs(code, k + 1), "str")
                 /\ IsWord(code[SkipWs(code, k + 1)].v)
  IN  IF s = 0 \/ ~ \E k \in (s + 1)..Len(code) : OpAt(k) THEN NoMatch
      ELSE LET k == CHOOSE k \in (s + 1)..Len(code) :
                      OpAt(k) /\ \A k2 \in (s + 1)..(k - 1) : ~ OpAt(k2)
               n == SkipWs(code, k + 1)
           IN  [ok |-> TRUE, m1 |-> code[s].v, m2 |-> code[n].v,
                m3 |-> <<>>, end |-> n + 1]

RECURSIVE matchAll(_, _, _)
\* code.matchAll(re): successive leftmost matches, each search resuming
\* where the previous match ended
matchAll(re, code, i) ==
  IF i > Len(code) THEN <<>>
  ELSE LET m == IF re = "WITH_FEATURES" THEN MatchWithFeatures(code, i)
                ELSE MatchWithoutFeatures(code, i)
       IN  IF m.ok THEN <<m>> \o matchAll(re, code, m.end)
           ELSE matchAll(re, code, i + 1)

RECURSIVE QuotedStrings(_)
\* m[3].match(/"([^"]+)"/g)?.map(f => f.replace(/"/g, "")) || []
QuotedStrings(toks) ==
  IF toks = <<>> THEN <<>>
  ELSE IF Head(toks).k = "str" THEN <<Head(toks).v>> \o QuotedStrings(Tail(toks))
  ELSE QuotedStrings(Tail(toks))

Endpoint(name, hash, features) ==
  [name |-> name, hash |-> hash, features |-> features]

WithFeaturesPass(code) ==
  LET ms == matchAll("WITH_FEATURES", code, 1)
  IN  [j \in 1..Len(ms) |-> Endpoint(ms[j].m2, ms[j].m1, QuotedStrings(ms[j].m3))]

\* WithoutFeaturesPass run only when the first pass found nothing
WithoutFeaturesPassIfNone(code) ==
  IF WithFeaturesPass(code) # <<>> THEN <<>>
  ELSE LET ms == matchAll("WITHOUT_FEATURES", code, 1)
       IN  [j \in 1..Len(ms) |-> Endpoint(ms[j].m2, ms[j].m1, <<>>)]

WithoutFeaturesPass(code) ==
  LET ms == matchAll("WITHOUT_FEATURES", code, 1)
  IN  [j \in 1..Len(ms) |-> Endpoint(ms[j].m2, ms[j].m1, <<>>)]

extractEndpoints(code) == WithFeaturesPass(code) \o WithoutFeaturesPass(code)

(* ---------------------------------------------------------------------- *)
(* Reducer: filter, merge by name, sort                                   *)
(* ---------------------------------------------------------------------- *)

NameMin == 3
HashMin == 10

\* Dropped with the name bound off by one (name.length < 3)
DroppedOffByOne(ep) ==
  \/ Len(ep.name) = 0
  \/ Len(ep.hash) = 0
  \/ Len(ep.name) < NameMin
  \/ Len(ep.hash) <= HashMin

\* the filter of the dedup loop: TRUE when the record is skipped (continue)
Dropped(ep) ==
  \/ Len(ep.name) = 0
  \/ Len(ep.hash) = 0
  \/ Len(ep.name) <= NameMin
  \/ Len(ep.hash) <= HashMin

\* all.get(name): the position of the entry keyed name, else 0.  The Map is
\* the sequence of its values in insertion order; keys are compared as
\* JavaScript strings (code unit by code unit).
MapGet(all, name) ==
  IF \E j \in 1..Len(all) : all[j].name = name
  THEN CHOOSE j \in 1..Len(all) : all[j].name = name
  ELSE 0

\* DedupStep replacing on >= : the last of several longest records wins
DedupStepLastWins(all, ep) ==
  IF Dropped(ep) THEN all
  ELSE LET j == MapGet(all, ep.name)
       IN  IF j = 0 THEN Append(all, ep)
           ELSE IF Len(ep.features) >= Len(all[j].features)
                THEN [all EXCEPT ![j] = ep]
                ELSE all

\* one iteration of the dedup loop.  Map.set on an existing key keeps the
\* key's insertion position.
DedupStep(all, ep) ==
  IF Dropped(ep) THEN all
  ELSE LET j == MapGet(all, ep.name)
       IN  IF j = 0 THEN Append(all, ep)
           ELSE IF Len(ep.features) > Len(all[j].features)
                THEN [all EXCEPT ![j] = ep]
                ELSE all

RECURSIVE Dedup(_, _)
Dedup(all, cands) ==
  IF cands = <<>> THEN all ELSE Dedup(DedupStep(all, Head(cands)), Tail(cands))

\* SortInsert with the comparator's operands swapped (descending order)
SortInsertDescending(sorted, e) ==
  LET after == {j \in 1..Len(sorted) : localeCompare(e.name, sorted[j].name) > 0}
      pos == IF after = {} THEN Len(sorted) + 1
             ELSE CHOOSE j \in after : \A q \in after : j <= q
  IN  SubSeq(sorted, 1, pos - 1) \o <<e>> \o SubSeq(sorted, pos, Len(sorted))

\* insert e into a sorted sequence after every element that does not
\* compare greater than it (Array.prototype.sort is stable)
SortInsert(sorted, e) ==
  LET after == {j \in 1..Len(sorted) : localeCompare(sorted[j].name, e.name) > 0}
      pos == IF after = {} THEN Len(sorted) + 1
             ELSE CHOOSE j \in after : \A q \in after : j <= q
  IN  SubSeq(sorted, 1, pos - 1) \o <<e>> \o SubSeq(sorted, pos, Len(sorted))

\* SortByName with the sort left out: the Map's insertion order
SortByNameUnsorted(vals) == vals

RECURSIVE SortByName(_)
\* [...all.values()].sort((a, b) => a.name.localeCompare(b.name))
SortByName(vals) ==
  IF vals = <<>> THEN <<>>
  ELSE SortInsert(SortByName(SubSeq(vals, 1, Len(vals) - 1)), vals[Len(vals)])

\* the object handed to JSON.stringify (the timestamp is left out)
ResultSet(endpoints) == [count |-> Len(endpoints), endpoints |-> endpoints]

(* ---------------------------------------------------------------------- *)
(* Bundle Source and Chunk Harvester                                      *)
(* ---------------------------------------------------------------------- *)

AssetsMarker == Tok("assets")       \* self.ASSETS=[

\* a URL is the sequence of the pieces of its text
endsWithJs(u) == Len(u) > 0 /\ u[Len(u)] = ".js"
includes(u, piece) == \E j \in 1..Len(u) : u[j] = piece

RECURSIVE FilterJs(_)
\* .filter(s => s.endsWith(".js"))
FilterJs(seq) ==
  IF seq = <<>> THEN <<>>
  ELSE IF endsWithJs(Head(seq)) THEN <<Head(seq)>> \o FilterJs(Tail(seq))
  ELSE FilterJs(Tail(seq))

\* the page function of the first evaluate, applied to the text of sw.js
ParseAssets(text) ==
  LET starts == {j \in 1..Len(text) :
                   text[j].k = "assets" /\ FirstRBrack(text, j) # 0}
  IN  IF starts = {} THEN <<>>
      ELSE LET j == CHOOSE j \in starts : \A q \in starts : j <= q
               m1 == SubSeq(text, j + 1, FirstRBrack(text, j) - 1)
           IN  FilterJs(QuotedStrings(m1))

IsKeyBundle(u) ==
  \/ includes(u, "main")
  \/ includes(u, "vendor")
  \/ includes(u, "bundle.")
  \/ includes(u, "ondemand.")

RECURSIVE FilterKeyBundles(_)
\* bundleUrls.filter(u => u.includes("main") || ...)
FilterKeyBundles(seq) ==
  IF seq = <<>> THEN <<>>
  ELSE IF IsKeyBundle(Head(seq)) THEN <<Head(seq)>> \o FilterKeyBundles(Tail(seq))
  ELSE FilterKeyBundles(Tail(seq))

RECURSIVE JoinNl(_)
\* texts.join("\n")
JoinNl(texts) ==
  IF texts = <<>> THEN <<>>
  ELSE IF Len(texts) = 1 THEN texts[1]
  ELSE texts[1] \o <<Ws>> \o JoinNl(Tail(texts))

RECURSIVE FlatFns(_)
\* chunks.filter(c => c[1]).flatMap(c => Object.values(c[1]))
FlatFns(chunks) ==
  IF chunks = <<>> THEN <<>>
  ELSE IF Head(chunks).has THEN Head(chunks).fns \o FlatFns(Tail(chunks))
  ELSE FlatFns(Tail(chunks))

\* the page function of the second evaluate
HarvestChunks(reg) ==
  LET chunks == IF reg.present THEN reg.chunks ELSE <<>>
  IN  JoinNl(FlatFns(chunks))

(* ---------------------------------------------------------------------- *)
(* Bounds and the values the environment can serve                        *)
(* ---------------------------------------------------------------------- *)

MaxUrls   == 3     \* entries of the asset list of sw.js
MaxChunks == 1     \* chunks the page's loader registers
MaxCands  == 3     \* candidate records handed to the Reducer
MaxDescr  == 1     \* operation descriptors in one extractor input

Rep(c, n) == [j \in 1..n |-> c]

HashX10 == Rep("x", 10)
HashX11 == Rep("x", 11)
HashY11 == Rep("y", 11)

NameAbc    == <<"a", "b", "c">>
NameAaaa   == <<"a", "a", "a", "a">>
NameBaaa   == <<"B", "a", "a", "a">>
NameKaaa   == <<"K", "a", "a", "a">>
NameKelvin == <<"KELVIN", "a", "a", "a">>
NameDash   == <<"a", "-", "a", "a">>

FlagF == <<"f", "_", "1">>
FlagG == <<"g", "_", "1">>

RichText(q, o, f1, f2) ==
  <<KwQuery, Str(q), Comma, KwOp, Str(o), Comma,
    KwFeat, LBrack, Str(f1), Comma, Str(f2), RBrack>>

MinimalText(q, o) == <<KwQuery, Str(q), Comma, KwOp, Str(o)>>

\* source texts of module factories and of bundles
SourceTexts ==
  { RichText(HashX11, NameAaaa, FlagF, FlagG),
    MinimalText(HashX11, NameBaaa) \o <<RBrace, Comma>> \o MinimalText(HashX10, NameAbc),
    <<Comma>> }

UrlMain     == <<"https://abs.twimg.com/", "main", ".", "1", ".js">>
UrlI18n     == <<"https://abs.twimg.com/", "i18n/", "1", ".js">>
UrlCss      == <<"https://abs.twimg.com/", "ondemand.", "1", ".css">>

AssetUrls == {UrlMain, UrlI18n, UrlCss}

SeqsUpTo(S, n) == UNION {[1..m -> S] : m \in 0..n}

RECURSIVE AssetList(_)
\* "u1","u2",...
AssetList(urls) ==
  IF urls = <<>> THEN <<>>
  ELSE IF Len(urls) = 1 THEN <<Str(urls[1])>>
  ELSE <<Str(urls[1]), Comma>> \o AssetList(Tail(urls))

\* texts the server can answer for sw.js: with the asset list, without the
\* marker, and with a marker whose list is never closed
SwTexts ==
  {<<Comma, AssetsMarker>> \o AssetList(us) \o <<RBrack, Comma>> : us \in SeqsUpTo(AssetUrls, MaxUrls)}
    \cup {<<Comma>>, <<AssetsMarker, Str(UrlMain)>>}

\* a chunk is [ids, modules]; has is the truthiness of c[1], fns the source
\* texts of the module factories in c[1]
ChunkPool ==
  { [has |-> FALSE, fns |-> <<>>],
    [has |-> TRUE, fns |-> <<MinimalText(HashY11, NameAaaa), <<Comma>>>>] }

(* ---------------------------------------------------------------------- *)
(* State                                                                  *)
(* ---------------------------------------------------------------------- *)

VARIABLES
  pc,          \* position of the top-level run
  browser,     \* "none", "open", "closed": the session of puppeteer.launch
  closes,      \* number of browser.close() calls
  registry,    \* window.webpackChunk_twitter_responsive_web of the page
  timedOut,    \* the readiness wait was rejected and the rejection swallowed
  bundleUrls, chunkCode, fromChunks, keyBundles, fromBundles, scanned,
  urlIdx,      \* position of the for-of loop over keyBundles
  epIdx,       \* position of the for-of loop over [...fromChunks, ...fromBundles]
  all,         \* the Map, as the sequence of its values in insertion order
  endpoints,
  output,      \* <<>> or <<the object written to OUTPUT_FILE>>
  fault,       \* the step whose rejection ended the run, "" if none
  steps,       \* the steps performed so far, in order
  fetchLog,    \* what each bundle fetch of the scan loop returned
  swText,      \* <<>> or <<the text sw.js was answered with>>
  code, found, xpc   \* extractEndpoints called on its own: argument, result, position

vars == <<pc, browser, closes, registry, timedOut, bundleUrls, chunkCode,
          fromChunks, keyBundles, fromBundles, scanned, urlIdx, epIdx, all,
          endpoints, output, fault, steps, fetchLog, swText, code, found, xpc>>

runVars == <<pc, browser, closes, registry, timedOut, bundleUrls, chunkCode,
             fromChunks, keyBundles, fromBundles, scanned, urlIdx, epIdx, all,
             endpoints, output, fault, steps, fetchLog, swText>>

extractVars == <<code, found, xpc>>

NoRegistry == [present |-> FALSE, chunks |-> <<>>]

InitRun ==
  /\ pc = "launch"
  /\ browser = "none"
  /\ closes = 0
  /\ registry = NoRegistry
  /\ timedOut = FALSE
  /\ bundleUrls = <<>>
  /\ chunkCode = <<>>
  /\ fromChunks = <<>>
  /\ keyBundles = <<>>
  /\ fromBundles = <<>>
  /\ scanned = 0
  /\ urlIdx = 1
  /\ epIdx = 1
  /\ all = <<>>
  /\ endpoints = <<>>
  /\ output = <<>>
  /\ fault = ""
  /\ steps = <<>>
  /\ fetchLog = <<>>
  /\ swText = <<>>

InitExtractIdle ==
  /\ code = <<>>
  /\ found = <<>>
  /\ xpc = "idle"

Init == InitRun /\ InitExtractIdle

(* ---------------------------------------------------------------------- *)
(* The run                                                                *)
(* ---------------------------------------------------------------------- *)

\* an awaited call rejects and nothing catches it: the module's evaluation
\* ends there
Abort(step) ==
  /\ pc' = "aborted"
  /\ fault' = step
  /\ steps' = steps

Did(step, next) ==
  /\ pc' = next
  /\ fault' = fault
  /\ steps' = Append(steps, step)

\* const browser = await puppeteer.launch({ headless: true })
Launch ==
  /\ pc = "launch"
  /\ \/ Did("launch", "newPage") /\ browser' = "open"
     \/ Abort("launch") /\ browser' = browser
  /\ UNCHANGED <<closes, registry, timedOut, bundleUrls, chunkCode, fromChunks,
                 keyBundles, fromBundles, scanned, urlIdx, epIdx, all, endpoints,
                 output, fetchLog, swText>>
  /\ UNCHANGED extractVars

\* const page = await browser.newPage()
NewPage ==
  /\ pc = "newPage"
  /\ \/ Did("newPage", "goto")
     \/ Abort("newPage")
  /\ UNCHANGED <<browser, closes, registry, timedOut, bundleUrls, chunkCode,
                 fromChunks, keyBundles, fromBundles, scanned, urlIdx, epIdx,
                 all, endpoints, output, fetchLog, swText>>
  /\ UNCHANGED extractVars

\* await page.goto("https://x.com/explore", ...): at domcontentloaded the
\* registry is absent or was created empty
Goto ==
  /\ pc = "goto"
  /\ \/ /\ Did("goto", "wait")
        /\ \E present \in BOOLEAN : registry' = [present |-> present, chunks |-> <<>>]
     \/ Abort("goto") /\ registry' = registry
  /\ UNCHANGED <<browser, closes, timedOut, bundleUrls, chunkCode, fromChunks,
                 keyBundles, fromBundles, scanned, urlIdx, epIdx, all, endpoints,
                 output, fetchLog, swText>>
  /\ UNCHANGED extractVars

\* the application's module loader pushes a chunk while the page is alive
AppLoadsChunk ==
  /\ pc \in {"wait", "sw", "chunks"}
  /\ Len(registry.chunks) < MaxChunks
  /\ \E c \in ChunkPool :
       registry' = [present |-> TRUE, chunks |-> Append(registry.chunks, c)]
  /\ UNCHANGED <<pc, browser, closes, timedOut, bundleUrls, chunkCode, fromChunks,
                 keyBundles, fromBundles, scanned, urlIdx, epIdx, all, endpoints,
                 output, fault, steps, fetchLog, swText>>
  /\ UNCHANGED extractVars

\* WaitReadiness without the .catch(() => {}): a timeout ends the run
WaitReadinessNoCatch ==
  /\ pc = "wait"
  /\ \/ /\ registry.present /\ Len(registry.chunks) > 0
        /\ timedOut' = FALSE
        /\ Did("wait", "sw")
     \/ /\ ~ (registry.present /\ Len(registry.chunks) > 0)
        /\ timedOut' = TRUE
        /\ Abort("wait")
  /\ UNCHANGED <<browser, closes, registry, bundleUrls, chunkCode, fromChunks,
                 keyBundles, fromBundles, scanned, urlIdx, epIdx, all, endpoints,
                 output, fetchLog, swText>>
  /\ UNCHANGED extractVars

\* await page.waitForFunction("...?.length > 0", { timeout: 15000 }).catch(() => {})
WaitReadiness ==
  /\ pc = "wait"
  /\ \/ /\ registry.present /\ Len(registry.chunks) > 0
        /\ timedOut' = FALSE
     \/ /\ ~ (registry.present /\ Len(registry.chunks) > 0)
        /\ timedOut' = TRUE
  /\ Did("wait", "sw")
  /\ UNCHANGED <<browser, closes, registry, bundleUrls, chunkCode, fromChunks,
                 keyBundles, fromBundles, scanned, urlIdx, epIdx, all, endpoints,
                 output, fetchLog, swText>>
  /\ UNCHANGED extractVars

\* const bundleUrls = await page.evaluate(async () => { fetch sw.js ... })
BundleSource ==
  /\ pc = "sw"
  /\ \/ \E text \in SwTexts :
          /\ swText' = <<text>>
          /\ bundleUrls' = ParseAssets(text)
          /\ Did("bundleSource", "chunks")
     \/ /\ Abort("bundleSource")      \* fetch("https://x.com/sw.js") rejects
        /\ UNCHANGED <<swText, bundleUrls>>
  /\ UNCHANGED <<browser, closes, registry, timedOut, chunkCode, fromChunks,
                 keyBundles, fromBundles, scanned, urlIdx, epIdx, all, endpoints,
                 output, fetchLog>>
  /\ UNCHANGED extractVars

\* const chunkCode = await page.evaluate(...); fromChunks; keyBundles;
\* fromBundles = []; scanned = 0
ChunkHarvest ==
  /\ pc = "chunks"
  /\ \/ /\ chunkCode' = HarvestChunks(registry)
        /\ fromChunks' = extractEndpoints(chunkCode')
        /\ keyBundles' = FilterKeyBundles(bundleUrls)
        /\ fromBundles' = <<>>
        /\ scanned' = 0
        /\ urlIdx' = 1
        /\ Did("chunkHarvest", "scan")
     \/ /\ Abort("chunkHarvest")
        /\ UNCHANGED <<chunkCode, fromChunks, keyBundles, fromBundles, scanned, urlIdx>>
  /\ UNCHANGED <<browser, closes, registry, timedOut, bundleUrls, epIdx, all,
                 endpoints, output, fetchLog, swText>>
  /\ UNCHANGED extractVars

\* ScanBundle without the try/catch: a rejected fetch ends the run
ScanBundleNoCatch ==
  /\ pc = "scan"
  /\ urlIdx <= Len(keyBundles)
  /\ \/ /\ \E text \in SourceTexts :
             /\ fromBundles' = fromBundles \o extractEndpoints(text)
             /\ scanned' = scanned + 1
             /\ fetchLog' = Append(fetchLog, [url |-> keyBundles[urlIdx], ok |-> TRUE, text |-> text])
        /\ UNCHANGED <<pc, fault, steps>>
     \/ /\ UNCHANGED <<fromBundles, scanned>>
        /\ fetchLog' = Append(fetchLog, [url |-> keyBundles[urlIdx], ok |-> FALSE, text |-> <<>>])
        /\ Abort("bundleScan")
  /\ urlIdx' = urlIdx + 1
  /\ UNCHANGED <<browser, closes, registry, timedOut, bundleUrls, chunkCode,
                 fromChunks, keyBundles, epIdx, all, endpoints, output, swText>>
  /\ UNCHANGED extractVars

\* one iteration of: for (const url of keyBundles) { try { ... } catch {} }
ScanBundle ==
  /\ pc = "scan"
  /\ urlIdx <= Len(keyBundles)
  /\ \/ \E text \in SourceTexts :
          /\ fromBundles' = fromBundles \o extractEndpoints(text)
          /\ scanned' = scanned + 1
          /\ fetchLog' = Append(fetchLog, [url |-> keyBundles[urlIdx], ok |-> TRUE, text |-> text])
     \/ /\ UNCHANGED <<fromBundles, scanned>>     \* the evaluate rejects; catch {}
        /\ fetchLog' = Append(fetchLog, [url |-> keyBundles[urlIdx], ok |-> FALSE, text |-> <<>>])
  /\ urlIdx' = urlIdx + 1
  /\ UNCHANGED <<pc, browser, closes, registry, timedOut, bundleUrls, chunkCode,
                 fromChunks, keyBundles, epIdx, all, endpoints, output, fault,
                 steps, swText>>
  /\ UNCHANGED extractVars

\* the loop is exhausted: const all = new Map()
ScanDone ==
  /\ pc = "scan"
  /\ urlIdx > Len(keyBundles)
  /\ all' = <<>>
  /\ epIdx' = 1
  /\ Did("bundleScan", "dedup")
  /\ UNCHANGED <<browser, closes, registry, timedOut, bundleUrls, chunkCode,
                 fromChunks, keyBundles, fromBundles, scanned, urlIdx, endpoints,
                 output, fetchLog, swText>>
  /\ UNCHANGED extractVars

Candidates == fromChunks \o fromBundles

\* one iteration of: for (const ep of [...fromChunks, ...fromBundles]) { ... }
DedupIter ==
  /\ pc = "dedup"
  /\ epIdx <= Len(Candidates)
  /\ all' = DedupStep(all, Candidates[epIdx])
  /\ epIdx' = epIdx + 1
  /\ UNCHANGED <<pc, browser, closes, registry, timedOut, bundleUrls, chunkCode,
                 fromChunks, keyBundles, fromBundles, scanned, urlIdx, endpoints,
                 output, fault, steps, fetchLog, swText>>
  /\ UNCHANGED extractVars

\* const endpoints = [...all.values()].sort(...)
SortEndpoints ==
  /\ pc = "dedup"
  /\ epIdx > Len(Candidates)
  /\ endpoints' = SortByName(all)
  /\ Did("reduce", "write")
  /\ UNCHANGED <<browser, closes, registry, timedOut, bundleUrls, chunkCode,
                 fromChunks, keyBundles, fromBundles, scanned, urlIdx, epIdx,
                 all, output, fetchLog, swText>>
  /\ UNCHANGED extractVars

\* writeFileSync(OUTPUT_FILE, JSON.stringify({ generated, count, endpoints }))
WriteOutput ==
  /\ pc = "write"
  /\ \/ /\ output' = <<ResultSet(endpoints)>>
        /\ Did("write", "close")
     \/ /\ Abort("write")
        /\ output' = output
  /\ UNCHANGED <<browser, closes, registry, timedOut, bundleUrls, chunkCode,
                 fromChunks, keyBundles, fromBundles, scanned, urlIdx, epIdx,
                 all, endpoints, fetchLog, swText>>
  /\ UNCHANGED extractVars

\* await browser.close()
CloseBrowser ==
  /\ pc = "close"
  /\ browser' = "closed"
  /\ closes' = closes + 1
  /\ Did("close", "done")
  /\ UNCHANGED <<registry, timedOut, bundleUrls, chunkCode, fromChunks,
                 keyBundles, fromBundles, scanned, urlIdx, epIdx, all, endpoints,
                 output, fetchLog, swText>>
  /\ UNCHANGED extractVars

Next ==
  \/ Launch
  \/ NewPage
  \/ Goto
  \/ AppLoadsChunk
  \/ WaitReadiness
  \/ BundleSource
  \/ ChunkHarvest
  \/ ScanBundle
  \/ ScanDone
  \/ DedupIter
  \/ SortEndpoints
  \/ WriteOutput
  \/ CloseBrowser

Spec == Init /\ [][Next]_vars

(* ---------------------------------------------------------------------- *)
(* The Reducer on arbitrary candidate lists                               *)
(* ---------------------------------------------------------------------- *)

Feat3F == <<FlagF, FlagG, FlagF>>
Feat3G == <<FlagG, FlagG, FlagG>>

\* candidate records: the filter's boundaries, same-name records of
\* different and equal feature counts, names that differ in case, and two
\* names that are canonically equivalent
CandPool ==
  {Endpoint(n, h, <<>>) : n \in {<<>>, NameAbc, NameAaaa}, h \in {<<>>, HashX10, HashX11}}
    \cup {Endpoint(NameAaaa, h, f) : h \in {HashX11, HashY11},
                                     f \in {<<>>, <<FlagF>>, Feat3F, Feat3G}}
    \cup {Endpoint(n, HashX11, <<>>) : n \in {NameBaaa, NameKaaa, NameKelvin}}

\* the state of a run that reaches the dedup loop with the candidates cs
InitReducer ==
  /\ \E cs \in SeqsUpTo(CandPool, MaxCands) :
       /\ fromChunks = IF cs = <<>> THEN <<>> ELSE <<Head(cs)>>
       /\ fromBundles = IF cs = <<>> THEN <<>> ELSE Tail(cs)
  /\ pc = "dedup"
  /\ browser = "open"
  /\ closes = 0
  /\ registry = NoRegistry
  /\ timedOut = FALSE
  /\ bundleUrls = <<>>
  /\ chunkCode = <<>>
  /\ keyBundles = <<>>
  /\ scanned = 0
  /\ urlIdx = 1
  /\ epIdx = 1
  /\ all = <<>>
  /\ endpoints = <<>>
  /\ output = <<>>
  /\ fault = ""
  /\ steps = <<"launch", "newPage", "goto", "wait", "bundleSource", "chunkHarvest", "bundleScan">>
  /\ fetchLog = <<>>
  /\ swText = <<>>
  /\ InitExtractIdle

NextReducer ==
  \/ DedupIter
  \/ SortEndpoints
  \/ WriteOutput
  \/ CloseBrowser

SpecReducer == InitReducer /\ [][NextReducer]_vars

(* ---------------------------------------------------------------------- *)
(* extractEndpoints on arbitrary texts                                    *)
(* ---------------------------------------------------------------------- *)

XHashes == {HashX11, HashY11}
XNames  == {NameAaaa, NameAbc, NameDash, NameKelvin}
XFlags  == {FlagF, FlagG}

Descriptors ==
  {RichText(q, o, f1, f2) : q \in XHashes, o \in XNames, f1 \in XFlags, f2 \in XFlags}
    \cup {MinimalText(q, o) : q \in XHashes, o \in XNames}
    \cup {<<KwQuery, Ws, Str(q), Comma, KwOp, Ws, Ws, Str(NameAaaa), RBrace,
            KwFeat, Ws, LBrack, Str(FlagF), RBrack>> : q \in XHashes}
    \cup {<<KwQuery, Str(q), Pad, Comma, KwOp, Str(NameAaaa), Comma,
            KwFeat, LBrack, RBrack, RBrace>> : q \in XHashes}
    \cup {<<Comma>>, <<RBrace>>, <<KwQuery, Str(HashX11), RBrace>>,
          <<KwOp, Str(NameAaaa), KwFeat, LBrack, Str(FlagG), RBrack>>}

RECURSIVE Flatten(_)
Flatten(ss) == IF ss = <<>> THEN <<>> ELSE Head(ss) \o Flatten(Tail(ss))

InitExtract ==
  /\ InitRun
  /\ \E ds \in SeqsUpTo(Descriptors, MaxDescr) : code = Flatten(ds)
  /\ found = <<>>
  /\ xpc = "with"

\* for (const m of code.matchAll(WITH_FEATURES)) { ... endpoints.push(...) }
ExtractWith ==
  /\ xpc = "with"
  /\ found' = WithFeaturesPass(code)
  /\ xpc' = "without"
  /\ UNCHANGED code
  /\ UNCHANGED runVars

\* for (const m of code.matchAll(WITHOUT_FEATURES)) { ... }; return endpoints
ExtractWithout ==
  /\ xpc = "without"
  /\ found' = found \o WithoutFeaturesPass(code)
  /\ xpc' = "return"
  /\ UNCHANGED code
  /\ UNCHANGED runVars

NextExtract ==
  \/ ExtractWith
  \/ ExtractWithout

SpecExtract == InitExtract /\ [][NextExtract]_vars

(* ---------------------------------------------------------------------- *)
(* Properties                                                             *)
(* ---------------------------------------------------------------------- *)

Terminated == pc \in {"done", "aborted"}

\* the dedup loop and the sort are over
Reduced == pc \in {"write", "close", "done"} \/ (pc = "aborted" /\ fault = "write")

Range(seq) == {seq[j] : j \in 1..Len(seq)}

\* C1: a run that acquired a browser session never terminates with the
\* session open, and it calls browser.close exactly once, on normal
\* completion and on every fault after launch.
C1_SessionReleasedOnEveryExit ==
  (Terminated /\ "launch" \in Range(steps)) => (browser = "closed" /\ closes = 1)

RECURSIVE ExpectedFromLog(_)
\* the extractor output of the fetches that answered, in fetch order
ExpectedFromLog(log) ==
  IF log = <<>> THEN <<>>
  ELSE (IF Head(log).ok THEN extractEndpoints(Head(log).text) ELSE <<>>)
         \o ExpectedFromLog(Tail(log))

\* C2: the scan visits every URL of keyBundles once in input order, the
\* accumulator holds exactly the extractor output of the URLs whose fetch
\* answered, concatenated in input order, a failing URL contributes nothing
\* and is not retried, and no failure of the scan ends the run: the run goes
\* on to the Reducer with every URL visited.
C2_ScannerToleratesFailures ==
  /\ pc = "scan" =>
       /\ Len(fetchLog) = urlIdx - 1
       /\ urlIdx <= Len(keyBundles) + 1
  /\ "chunkHarvest" \in Range(steps) =>
       /\ \A j \in 1..Len(fetchLog) : fetchLog[j].url = keyBundles[j]
       /\ fromBundles = ExpectedFromLog(fetchLog)
       /\ scanned = Cardinality({j \in 1..Len(fetchLog) : fetchLog[j].ok})
       /\ fault \in {"", "write"}
  /\ "bundleScan" \in Range(steps) => Len(fetchLog) = Len(keyBundles)

C2_Witness ==
  /\ pc = "dedup"
  /\ Len(fetchLog) = 3
  /\ fetchLog[1].ok /\ ~ fetchLog[2].ok /\ fetchLog[3].ok
  /\ extractEndpoints(fetchLog[1].text) # <<>>
  /\ extractEndpoints(fetchLog[3].text) # <<>>
  /\ fromBundles = extractEndpoints(fetchLog[1].text) \o extractEndpoints(fetchLog[3].text)

Passes(c) == Len(c.name) > 3 /\ Len(c.hash) > 10

PassingAt(cs, n) == {i \in 1..Len(cs) : Passes(cs[i]) /\ cs[i].name = n}

\* the earliest of the passing candidates named n with the most features
Winner(cs, n) ==
  CHOOSE i \in PassingAt(cs, n) :
    \A j \in PassingAt(cs, n) :
      \/ Len(cs[j].features) < Len(cs[i].features)
      \/ (Len(cs[j].features) = Len(cs[i].features) /\ i <= j)

\* result holds one record per name of a passing candidate of cs: its winner
MergedFrom(result, cs) ==
  /\ \A i, j \in 1..Len(result) : result[i].name = result[j].name => i = j
  /\ \A i \in 1..Len(cs) :
       Passes(cs[i]) => cs[Winner(cs, cs[i].name)] \in Range(result)
  /\ \A k \in 1..Len(result) : PassingAt(cs, result[k].name) # {}

\* C3: after any candidate sequence the result holds at most one record per
\* name, and for every name the retained record is the passing candidate of
\* that name with the longest features, the earliest-seen one on a tie; the
\* same holds of the Map after every iteration of the loop.
C3_ReducerMerge ==
  /\ pc = "dedup" => MergedFrom(all, SubSeq(Candidates, 1, epIdx - 1))
  /\ Reduced => MergedFrom(endpoints, Candidates)

C3_Witness ==
  /\ Reduced
  /\ Len(Candidates) = 3
  /\ \A i \in 1..3 : Passes(Candidates[i]) /\ Candidates[i].name = Candidates[1].name
  /\ Len(Candidates[1].features) = 0
  /\ Len(Candidates[2].features) = 3
  /\ Len(Candidates[3].features) = 3
  /\ Candidates[2] # Candidates[3]
  /\ endpoints = <<Candidates[2]>>

PermsOf(cs) ==
  {[j \in 1..Len(cs) |-> cs[f[j]]] : f \in Permutations(1..Len(cs))}

\* C4 as stated: every permutation of the candidate list reduces to the
\* identical endpoints sequence.
C4_OrderIndependent ==
  pc = "write" =>
    \A p \in PermsOf(Candidates) : SortByName(Dedup(<<>>, p)) = endpoints

\* no two different passing records of one name tie for its longest features
TieFree(cs) ==
  \A i, j \in 1..Len(cs) :
    ( /\ Passes(cs[i]) /\ Passes(cs[j])
      /\ cs[i].name = cs[j].name
      /\ Len(cs[i].features) = Len(cs[j].features)
      /\ Len(cs[i].features) = Len(cs[Winner(cs, cs[i].name)].features) )
    => cs[i] = cs[j]

\* no two different passing names compare equal under localeCompare
CollationDistinct(cs) ==
  \A i, j \in 1..Len(cs) :
    (Passes(cs[i]) /\ Passes(cs[j]) /\ localeCompare(cs[i].name, cs[j].name) = 0)
      => cs[i].name = cs[j].name

\* C4 amended: every permutation of the candidate list reduces to the
\* identical endpoints sequence provided that no two different passing
\* records of one name tie for its longest features and no two different
\* passing names compare equal under the locale comparison.
C4_OrderIndependentWithoutTies ==
  (pc = "write" /\ TieFree(Candidates) /\ CollationDistinct(Candidates)) =>
    \A p \in PermsOf(Candidates) : SortByName(Dedup(<<>>, p)) = endpoints

C4_Witness ==
  /\ pc = "write"
  /\ TieFree(Candidates) /\ CollationDistinct(Candidates)
  /\ Len(Candidates) = 3
  /\ Len(endpoints) = 2
  /\ \E i, j \in 1..3 :
       /\ i < j
       /\ Candidates[i].name = Candidates[j].name
       /\ Passes(Candidates[i]) /\ Passes(Candidates[j])
       /\ Len(Candidates[i].features) < Len(Candidates[j].features)
  /\ \E p \in PermsOf(Candidates) : Dedup(<<>>, p) # all

\* the text is one rich-form descriptor whose operation name is made of
\* word characters
RichWordLiteral(text, q, o, f1, f2) == text = RichText(q, o, f1, f2) /\ IsWord(o)

\* C5 as stated: on one rich-form descriptor with a word-character name the
\* extractor returns exactly one record, {name: O, hash: Q, features:
\* [f1, f2]}, and nothing from the minimal-form pass.
C5_ExactlyOneRecord ==
  xpc = "return" =>
    \A q \in XHashes, o \in XNames, f1 \in XFlags, f2 \in XFlags :
      RichWordLiteral(code, q, o, f1, f2) => found = <<Endpoint(o, q, <<f1, f2>>)>>

\* C5 amended: on one rich-form descriptor with a word-character name the
\* extractor returns exactly two records, {name: O, hash: Q, features:
\* [f1, f2]} from the rich-form pass followed by {name: O, hash: Q,
\* features: []} from the minimal-form pass.
C5_RichThenMinimalRecord ==
  xpc = "return" =>
    \A q \in XHashes, o \in XNames, f1 \in XFlags, f2 \in XFlags :
      RichWordLiteral(code, q, o, f1, f2) =>
        found = <<Endpoint(o, q, <<f1, f2>>), Endpoint(o, q, <<>>)>>

C5_Witness ==
  /\ xpc = "return"
  /\ RichWordLiteral(code, HashX11, NameAaaa, FlagF, FlagG)
  /\ Len(found) = 2

HasMarker(text) == \E j \in 1..Len(text) : text[j].k = "assets"

\* C6: the Bundle Source step never ends the run: without the asset-list
\* marker in the service-worker text, and also when the service-worker
\* fetch fails, it yields an empty URL list and the run goes on to the
\* chunk extraction.
C6_BundleSourceNeverFails ==
  /\ fault # "bundleSource"
  /\ (swText # <<>> /\ ~ HasMarker(swText[1])) => (bundleUrls = <<>> /\ fault \in {"", "chunkHarvest", "write"})

\* C7: no record of the result has a name of length <= 3 or a hash of
\* length <= 10, every record of the result is one of the candidates, and
\* every candidate with a name longer than 3 and a hash longer than 10 has
\* its name in the result: a candidate is dropped exactly when its name or
\* hash is empty, its name length is <= 3 or its hash length is <= 10.
C7_FilterBoundary ==
  Reduced =>
    /\ \A k \in 1..Len(endpoints) :
         /\ Len(endpoints[k].name) > 3
         /\ Len(endpoints[k].hash) > 10
         /\ endpoints[k] \in Range(Candidates)
    /\ \A i \in 1..Len(Candidates) :
         LET c == Candidates[i]
         IN  IF Len(c.name) = 0 \/ Len(c.hash) = 0 \/ Len(c.name) <= 3 \/ Len(c.hash) <= 10
             THEN c \notin Range(endpoints)
             ELSE \E k \in 1..Len(endpoints) : endpoints[k].name = c.name

C7_Witness ==
  /\ Reduced
  /\ Len(Candidates) = 3
  /\ Len(Candidates[1].name) = 3 /\ Len(Candidates[1].hash) = 11
  /\ Len(Candidates[2].name) = 4 /\ Len(Candidates[2].hash) = 10
  /\ Len(Candidates[3].name) = 4 /\ Len(Candidates[3].hash) = 11
  /\ endpoints = <<Candidates[3]>>

Written == output # <<>>

\* C8 as stated: the endpoints of the result set are in ascending order of
\* name under the <= of strings, record[i].name <= record[i+1].name, and
\* count is the length of the sequence.
C8_SortedByCodeUnit ==
  Written =>
    /\ \A i \in 1..(Len(output[1].endpoints) - 1) :
         CodeUnitLeq(output[1].endpoints[i].name, output[1].endpoints[i + 1].name)
    /\ output[1].count = Len(output[1].endpoints)

\* C8 amended: the endpoints of the result set are in ascending order of
\* name under the locale-aware comparison of the sort,
\* record[i].name.localeCompare(record[i+1].name) <= 0, and count is the
\* length of the sequence.
C8_SortedByLocaleCompare ==
  Written =>
    /\ output[1].endpoints = endpoints
    /\ \A i \in 1..(Len(output[1].endpoints) - 1) :
         localeCompare(output[1].endpoints[i].name, output[1].endpoints[i + 1].name) <= 0
    /\ output[1].count = Len(output[1].endpoints)

C8_Witness ==
  /\ Written
  /\ output[1].count = 3
  /\ all # output[1].endpoints
  /\ output[1].endpoints[1].name = NameAaaa
  /\ output[1].endpoints[2].name = NameBaaa
  /\ output[1].endpoints[3].name = NameKaaa

ClaimedOrder ==
  <<"launch", "newPage", "goto", "wait", "chunkHarvest", "bundleSource",
    "bundleScan", "reduce", "write", "close">>

\* C9: the steps of every run happen in the order launch, navigate and
\* readiness wait, Chunk Harvester, Bundle Source, Bundle Scanner, Reducer,
\* close: the Chunk Harvester runs before the service worker is fetched.
C9_StepOrder ==
  /\ Len(steps) <= Len(ClaimedOrder)
  /\ steps = SubSeq(ClaimedOrder, 1, Len(steps))

\* C10: a timed-out readiness wait does not end the run: the run goes on to
\* the later steps, only a fault of a later step can end it, and a run that
\* completes has written the result set and closed the session; the chunk
\* harvest of an absent or empty registry is the empty text and gives no
\* candidates.
C10_ReadinessTimeoutTolerated ==
  /\ fault # "wait"
  /\ timedOut =>
       /\ "wait" \in Range(steps)
       /\ pc \in {"sw", "chunks", "scan", "dedup", "write", "close", "done", "aborted"}
       /\ pc = "aborted" => fault \in {"bundleSource", "chunkHarvest", "write"}
       /\ pc = "done" => (Written /\ browser = "closed"
                          /\ output[1].count = Len(output[1].endpoints))
  /\ ("chunkHarvest" \in Range(steps) /\ (~ registry.present \/ registry.chunks = <<>>))
       => (chunkCode = <<>> /\ fromChunks = <<>>)

C10_Witness ==
  /\ timedOut
  /\ pc = "done"
  /\ ~ registry.present
  /\ chunkCode = <<>>
  /\ Written
  /\ output[1].count > 0
  /\ browser = "closed"

====
